---- MODULE Spec2Model ----
(***************************************************************************)
(* Model of src/app.py: a four-party voting protocol on textbook RSA blind *)
(* signatures (Commissaire, Administrateur, Anonymiseur, Decompteur) and   *)
(* the client sequence submit_vote.                                        *)
(*                                                                         *)
(* Scaling.  Python integers are unbounded and the keys are 1024 bits; the *)
(* model keeps the arithmetic exact and scales the sizes: keys of KeyBits  *)
(* bits, text over an alphabet of Base symbols instead of 256 byte values. *)
(***************************************************************************)
EXTENDS Integers, Sequences, FiniteSets, TLC

VARIABLES
    admin_key,     \* Administrateur.public_key / private_key: [e, d, n]
    teller_key,    \* Decompteur.public_key / private_key: [e, d, n]
    valid_n1,      \* Commissaire.valid_n1
    hashed_n2,     \* Commissaire.hashed_n2
    urne,          \* Anonymiseur.urne
    resultats,     \* Decompteur.resultats
    voters,        \* content of electeurs.json: sequence of [n1, n2]
    loads,         \* number of charger_listes calls so far
    call,          \* the last completed call: [op, arg, ret]
    origin,        \* history: for each envelope of the urn, how it came in
    threads,       \* per request thread: position and locals of its handler
    dep,           \* position and locals of a running depouiller
    rsa            \* inputs and outputs of the number-theoretic functions under test

vars == <<admin_key, teller_key, valid_n1, hashed_n2, urne, resultats, voters,
          loads, call, origin, threads, dep, rsa>>

--------------------------------------------------------------------------
(* Bounds *)

\* size of the text alphabet (256 byte values in the source)
Base == 5
\* bit size passed to generate_keypair (1024 in the source)
KeyBits == 18
\* number of voters created by init_scrutin (5 in the source)
NVoters == 2
\* number of blinding factors a client may draw from, counted from 2
MaxBlind == 2
\* number of times the lists are loaded: at start-up and by /reset
MaxLoads == 2
\* bit size passed to generate_keypair where all its keypairs are enumerated
RsaBits == 10
\* largest ballot integer whose blinded values are enumerated
MaxMsg == 4

--------------------------------------------------------------------------
(* Integer arithmetic of Python: pow(b, e, n), pow(a, -1, m), gcd *)

\* (a * b) % n without leaving the 32-bit range
MulModF[t \in Nat \X Nat \X Nat] ==
    LET a == t[1]  b == t[2]  n == t[3]
    IN IF n <= 46340 THEN ((a % n) * (b % n)) % n
       ELSE IF b = 0 THEN 0
       ELSE LET h == MulModF[<<a % n, b \div 2, n>>]
                dbl == (h + h) % n
            IN IF b % 2 = 1 THEN (dbl + (a % n)) % n ELSE dbl

PowF[t \in Nat \X Nat \X Nat] ==
    LET b == t[1]  ex == t[2]  n == t[3]
    IN IF ex = 0 THEN 1 % n
       ELSE LET h == PowF[<<b, ex \div 2, n>>]
                sq == MulModF[<<h, h, n>>]
            IN IF ex % 2 = 1 THEN MulModF[<<sq, b % n, n>>] ELSE sq

\* Python's three-argument pow with a non-negative exponent
pow(b, ex, n) == PowF[<<b, ex, n>>]

\* (a * b) % n
mulmod(a, b, n) == MulModF[<<a, b, n>>]

GcdF[t \in Nat \X Nat] == IF t[2] = 0 THEN t[1] ELSE GcdF[<<t[2], t[1] % t[2]>>]

gcd(a, b) == GcdF[<<a, b>>]

\* <<g, u, v>> with u * a + v * b = g
EgcdF[t \in Nat \X Nat] ==
    IF t[2] = 0 THEN <<t[1], 1, 0>>
    ELSE LET r == EgcdF[<<t[2], t[1] % t[2]>>]
         IN <<r[1], r[3], r[2] - (t[1] \div t[2]) * r[3]>>

\* pow(a, -1, m); Python raises ValueError when a is not invertible, and the
\* callers only pass invertible values
modinv(a, m) == EgcdF[<<a % m, m>>][2] % m

--------------------------------------------------------------------------
(* is_prime, generate_large_prime, generate_keypair *)

\* n - 1 = 2^r * s with s odd (lines 19-22)
OddPartF[s \in Nat] == IF s % 2 = 0 /\ s > 0 THEN OddPartF[s \div 2] ELSE s

TwoExpF[s \in Nat] == IF s % 2 = 0 /\ s > 0 THEN 1 + TwoExpF[s \div 2] ELSE 0

\* the inner loop of lines 28-33: does some of the next cnt squarings reach n - 1
SquaresReachF[t \in Nat \X Nat \X Nat] ==
    LET x == t[1]  cnt == t[2]  n == t[3]
    IN IF cnt = 0 THEN FALSE
       ELSE LET x2 == pow(x, 2, n)
            IN x2 = n - 1 \/ SquaresReachF[<<x2, cnt - 1, n>>]

\* one round of the witness loop (lines 24-33) with base a: TRUE when the round
\* does not prove n composite
RoundPasses(a, n) ==
    LET s == OddPartF[n - 1]
        r == TwoExpF[n - 1]
        x == pow(a, s, n)
    IN x = 1 \/ x = n - 1 \/ SquaresReachF[<<x, r - 1, n>>]

\* the values is_prime(n) can return.  The bases are random draws from
\* range(2, n - 1), the same base may be drawn in all k rounds, so TRUE is
\* possible iff some base passes and FALSE iff some base does not.
is_prime(n) ==
    IF n < 2 THEN {FALSE}
    ELSE IF n = 2 \/ n = 3 THEN {TRUE}
    ELSE IF n % 2 = 0 THEN {FALSE}
    ELSE {b \in BOOLEAN :
            \/ b /\ \E a \in 2..(n - 2) : RoundPasses(a, n)
            \/ ~b /\ \E a \in 2..(n - 2) : ~RoundPasses(a, n)}

\* generate_large_prime(bits) can return v: some draw num of secrets.randbits(bits),
\* made odd by line 40, is v and is_prime accepts it
GeneratesPrime(bits, v) ==
    /\ v % 2 = 1
    /\ \E num \in {v - 1, v} : num >= 0 /\ num < 2^bits
    /\ TRUE \in is_prime(v)

generate_large_prime(bits) == {v \in 0..(2^bits) : GeneratesPrime(bits, v)}

\* line 61
DefaultExponent == 65537

\* lines 61-65: 65537 when coprime to phi, else any random e in range(1, phi)
\* coprime to phi
PublicExponents(phi) ==
    IF gcd(DefaultExponent, phi) = 1 THEN {DefaultExponent}
    ELSE {e \in 1..(phi - 1) : gcd(e, phi) = 1}

\* lines 59-67 for the primes p, q drawn at lines 57-58
keypair(p, q) ==
    LET n == p * q
        phi == (p - 1) * (q - 1)
    IN {[e |-> e, d |-> modinv(e, phi), n |-> n] : e \in PublicExponents(phi)}

generate_keypair(bits) ==
    UNION {keypair(p, q) : p \in generate_large_prime(bits \div 2),
                           q \in generate_large_prime(bits \div 2)}

--------------------------------------------------------------------------
(* Text: strings are sequences of symbols 0..Base-1.  Symbol Base-1 stands
   for a byte that is not valid UTF-8; the other symbols are one-byte
   characters, Sep being "|". *)

\* the character "|" of the separator "||" (line 199, line 351)
Sep == 1

InvalidByte == Base - 1

\* the value int_to_str returns on failure (line 81); no decoded text equals it
None == <<-1>>

StrToIntF[s \in Seq(Nat)] ==
    IF s = <<>> THEN 0 ELSE StrToIntF[SubSeq(s, 1, Len(s) - 1)] * Base + s[Len(s)]

\* lines 69-72: big-endian value of the encoded text (leading zero symbols vanish)
str_to_int(message) == StrToIntF[message]

\* number.to_bytes(length, 'big') with length = (bit_length + 7) // 8: the
\* big-endian digits without leading zeros, empty for 0
ToBytesF[number \in Nat] ==
    IF number = 0 THEN <<>> ELSE Append(ToBytesF[number \div Base], number % Base)

\* lines 74-81: None when the bytes do not decode
int_to_str(number) ==
    LET bytes == ToBytesF[number]
    IN IF \E i \in 1..Len(bytes) : bytes[i] = InvalidByte THEN None ELSE bytes

\* position of the first "||" in s at or after i, 0 if none
FindSepF[t \in Seq(Nat) \X Nat] ==
    LET s == t[1]  i == t[2]
    IN IF i + 1 > Len(s) THEN 0
       ELSE IF s[i] = Sep /\ s[i + 1] = Sep THEN i
       ELSE FindSepF[<<s, i + 1>>]

\* str.split("||") (line 199): left to right, non-overlapping
SplitF[s \in Seq(Nat)] ==
    LET i == FindSepF[<<s, 1>>]
    IN IF i = 0 THEN <<s>>
       ELSE <<SubSeq(s, 1, i - 1)>> \o SplitF[SubSeq(s, i + 2, Len(s))]

split(s) == SplitF[s]

\* lines 83-85.  SHA-256 is modelled as an injective tagging of its input.
hash_sha256(data) == <<"sha256", data>>

\* line 351: f"{choix}||{n2}||{salt}"
bulletin(choix, n2, salt) == choix \o <<Sep, Sep>> \o n2 \o <<Sep, Sep>> \o salt

--------------------------------------------------------------------------
(* Commissaire, Administrateur *)

\* lines 104-105
verifier_n1(v1, n1) == n1 \in v1

\* consommer_n1 putting an absent token back into the set
consommer_n1_remet(v1, n1) ==
    IF n1 \in v1 THEN [ret |-> TRUE, valid_n1 |-> v1 \ {n1}]
    ELSE [ret |-> FALSE, valid_n1 |-> v1 \cup {n1}]

\* consommer_n1 with line 110 left out: the token is found and not removed
consommer_n1_sans_retrait(v1, n1) == [ret |-> n1 \in v1, valid_n1 |-> v1]

\* lines 107-112 run without interruption: [ret, valid_n1]
consommer_n1(v1, n1) ==
    IF n1 \in v1 THEN [ret |-> TRUE, valid_n1 |-> v1 \ {n1}]
    ELSE [ret |-> FALSE, valid_n1 |-> v1]

\* lines 114-117
verifier_n2_hash(h2, n2_clear) == hash_sha256(n2_clear) \in h2

\* lines 130-137
signer_aveugle(key, blinded_message_int) == pow(blinded_message_int, key.d, key.n)

\* recevoir_vote with line 154 left out: the token is consumed, nothing is stored
recevoir_vote_sans_depot(v1, u, n1, vote_chiffre) ==
    LET c == consommer_n1(v1, n1)
    IN [ret |-> c.ret, valid_n1 |-> c.valid_n1, urne |-> u]

\* recevoir_vote putting the envelope at the head of the urn
recevoir_vote_en_tete(v1, u, n1, vote_chiffre) ==
    LET c == consommer_n1(v1, n1)
    IN IF c.ret THEN [ret |-> TRUE, valid_n1 |-> c.valid_n1, urne |-> <<vote_chiffre>> \o u]
       ELSE [ret |-> FALSE, valid_n1 |-> c.valid_n1, urne |-> u]

\* recevoir_vote with the test of line 153 left out: consumes, then appends
\* whatever consommer_n1 returned
recevoir_vote_sans_test(v1, u, n1, vote_chiffre) ==
    LET c == consommer_n1(v1, n1)
    IN [ret |-> c.ret, valid_n1 |-> c.valid_n1, urne |-> Append(u, vote_chiffre)]

\* lines 147-156 run without interruption: [ret, valid_n1, urne]
recevoir_vote(v1, u, n1, vote_chiffre) ==
    LET c == consommer_n1(v1, n1)
    IN IF c.ret THEN [ret |-> TRUE, valid_n1 |-> c.valid_n1, urne |-> Append(u, vote_chiffre)]
       ELSE [ret |-> FALSE, valid_n1 |-> c.valid_n1, urne |-> u]

--------------------------------------------------------------------------
(* The client computation of submit_vote, lines 350-390 *)

\* lines 387-390
enveloppe_pour(m_int, signature, tk) ==
    <<pow(m_int, tk.e, tk.n), pow(signature, tk.e, tk.n)>>

\* masquer with the blinding factor added to the ballot, not multiplied
masquer_additif(ak, m_int, k) == (m_int + pow(k, ak.e, ak.n)) % ak.n

\* lines 365-366: m' = m * k^e mod N
masquer(ak, m_int, k) == mulmod(m_int, pow(k, ak.e, ak.n), ak.n)

\* lines 356-378 for the ballot integer m_int and the blinding factor k: the
\* blinded message, the Administrateur's signature on it, the unblinded
\* signature and what it verifies to
signature_aveugle(ak, m_int, k) ==
    LET m_prime == masquer(ak, m_int, k)
        s_prime == signer_aveugle(ak, m_prime)
        k_inv == modinv(k, ak.n)
        signature == mulmod(s_prime, k_inv, ak.n)
    IN [m_prime |-> m_prime,
        s_prime |-> s_prime,
        signature |-> signature,
        verification |-> pow(signature, ak.e, ak.n)]

\* client with the test of lines 378-379 always passing
client_sans_controle(ak, tk, choix, n2, salt, k) ==
    LET m_int == str_to_int(bulletin(choix, n2, salt))
        sa == signature_aveugle(ak, m_int, k)
    IN [m_int |-> m_int,
        m_prime |-> sa.m_prime,
        signature |-> sa.signature,
        check |-> TRUE,
        enveloppe |-> enveloppe_pour(m_int, sa.signature, tk)]

\* lines 350-390 for the form value choix, the voter's n2, the drawn salt and
\* the drawn blinding factor k
client(ak, tk, choix, n2, salt, k) ==
    LET m_int == str_to_int(bulletin(choix, n2, salt))
        sa == signature_aveugle(ak, m_int, k)
    IN [m_int |-> m_int,
        m_prime |-> sa.m_prime,
        signature |-> sa.signature,
        check |-> sa.verification = m_int,
        enveloppe |-> enveloppe_pour(m_int, sa.signature, tk)]

--------------------------------------------------------------------------
(* Decompteur.depouiller, lines 167-230 *)

\* an entry of logs: the kind of message appended and the value it quotes
LogEntry(kind, detail) == [kind |-> kind, detail |-> detail]

\* lines 188-191 and 209: the three exponentiations made for a two-element
\* envelope
ouvrir(enveloppe, tk, ak) ==
    LET m_int == pow(enveloppe[1], tk.d, tk.n)
        s_int == pow(enveloppe[2], tk.d, tk.n)
    IN [m_int |-> m_int, s_int |-> s_int, verification |-> pow(s_int, ak.e, ak.n)]

\* what lines 221-222 append for the choice parts[1]
vote_valide(acc, choix) ==
    [bulletins_valides |-> Append(acc.bulletins_valides, choix),
     logs |-> Append(acc.logs, LogEntry("Succes: Vote valide", choix))]

\* depouiller_pas with the signature check of lines 211-213 left out
depouiller_pas_sans_signature(acc, enveloppe, o, h2) ==
    IF Len(enveloppe) # 2
    THEN [acc EXCEPT !.logs = Append(@, LogEntry("Exception", <<>>))]
    ELSE LET message_clair == int_to_str(o.m_int)
             parts == split(message_clair)
         IN IF message_clair = None \/ message_clair = <<>>
            THEN [acc EXCEPT !.logs = Append(@, LogEntry("Erreur: Impossible de decoder", <<>>))]
            ELSE IF Len(parts) # 3
            THEN [acc EXCEPT !.logs = Append(@, LogEntry("Erreur: Format bulletin invalide", <<>>))]
            ELSE IF ~verifier_n2_hash(h2, parts[2])
            THEN [acc EXCEPT !.logs =
                      Append(@, LogEntry("Fraude: Code N2 invalide", parts[2]))]
            ELSE vote_valide(acc, parts[1])

\* depouiller_pas with the N2 check of lines 216-218 left out
depouiller_pas_sans_n2(acc, enveloppe, o, h2) ==
    IF Len(enveloppe) # 2
    THEN [acc EXCEPT !.logs = Append(@, LogEntry("Exception", <<>>))]
    ELSE LET message_clair == int_to_str(o.m_int)
             parts == split(message_clair)
         IN IF message_clair = None \/ message_clair = <<>>
            THEN [acc EXCEPT !.logs = Append(@, LogEntry("Erreur: Impossible de decoder", <<>>))]
            ELSE IF Len(parts) # 3
            THEN [acc EXCEPT !.logs = Append(@, LogEntry("Erreur: Format bulletin invalide", <<>>))]
            ELSE IF o.verification # o.m_int
            THEN [acc EXCEPT !.logs =
                      Append(@, LogEntry("Fraude: Signature admin invalide", parts[2]))]
            ELSE vote_valide(acc, parts[1])

\* depouiller_pas with the N2 check of lines 216-218 made before the
\* signature check of lines 209-213
depouiller_pas_n2_dabord(acc, enveloppe, o, h2) ==
    IF Len(enveloppe) # 2
    THEN [acc EXCEPT !.logs = Append(@, LogEntry("Exception", <<>>))]
    ELSE LET message_clair == int_to_str(o.m_int)
             parts == split(message_clair)
         IN IF message_clair = None \/ message_clair = <<>>
            THEN [acc EXCEPT !.logs = Append(@, LogEntry("Erreur: Impossible de decoder", <<>>))]
            ELSE IF Len(parts) # 3
            THEN [acc EXCEPT !.logs = Append(@, LogEntry("Erreur: Format bulletin invalide", <<>>))]
            ELSE IF ~verifier_n2_hash(h2, parts[2])
            THEN [acc EXCEPT !.logs =
                      Append(@, LogEntry("Fraude: Code N2 invalide", parts[2]))]
            ELSE IF o.verification # o.m_int
            THEN [acc EXCEPT !.logs =
                      Append(@, LogEntry("Fraude: Signature admin invalide", parts[2]))]
            ELSE vote_valide(acc, parts[1])

\* one iteration of the loop of line 177 (lines 186-225), given the values of
\* ouvrir: the new bulletins_valides and logs
depouiller_pas(acc, enveloppe, o, h2) ==
    IF Len(enveloppe) # 2
    THEN \* line 188 raises ValueError, caught at line 224
         [acc EXCEPT !.logs = Append(@, LogEntry("Exception", <<>>))]
    ELSE LET message_clair == int_to_str(o.m_int)
             parts == split(message_clair)
         IN IF message_clair = None \/ message_clair = <<>>
            THEN [acc EXCEPT !.logs = Append(@, LogEntry("Erreur: Impossible de decoder", <<>>))]
            ELSE IF Len(parts) # 3
            THEN [acc EXCEPT !.logs = Append(@, LogEntry("Erreur: Format bulletin invalide", <<>>))]
            ELSE IF o.verification # o.m_int
            THEN [acc EXCEPT !.logs =
                      Append(@, LogEntry("Fraude: Signature admin invalide", parts[2]))]
            ELSE IF ~verifier_n2_hash(h2, parts[2])
            THEN [acc EXCEPT !.logs =
                      Append(@, LogEntry("Fraude: Code N2 invalide", parts[2]))]
            ELSE vote_valide(acc, parts[1])

\* lines 228-229: dict(Counter(bulletins_valides))
Counter(bulletins_valides) ==
    [c \in {bulletins_valides[i] : i \in 1..Len(bulletins_valides)} |->
        Cardinality({i \in 1..Len(bulletins_valides) : bulletins_valides[i] = c})]

--------------------------------------------------------------------------
(* The inputs the model draws from *)

\* prime pairs the two generate_large_prime calls of generate_keypair may
\* return, for the Administrateur, the Decompteur and a third party
AdminPrimes == {<<499, 503>>}

TellerPrimes == {<<503, 509>>, <<251, 257>>}

ForgerPrimes == [forger1 |-> <<491, 509>>, forger2 |-> <<499, 509>>]

KeysFrom(primes) ==
    UNION {keypair(pq[1], pq[2]) :
             pq \in {x \in primes : /\ GeneratesPrime(KeyBits \div 2, x[1])
                                   /\ GeneratesPrime(KeyBits \div 2, x[2])}}

AdminKeys == KeysFrom(AdminPrimes)

TellerKeys == KeysFrom(TellerPrimes)

Forgers == DOMAIN ForgerPrimes

\* the keypair of a third party, from a generate_keypair of its own
ForgerKey(f) == CHOOSE fk \in KeysFrom({ForgerPrimes[f]}) : TRUE

\* primary tokens (never encoded) and secondary tokens, salts and choices (text)
N1Names == <<"A1", "B1", "C1", "D1">>

N1Tokens == {N1Names[i] : i \in 1..NVoters}

N2Tokens == {<<2>>, <<3>>}

Salts == {<<2>>}

\* form values: two plain choices, one that contains the separator, one too
\* long for the Administrateur's modulus
Choices == {<<2>>, <<3>>, <<Sep, Sep>>, <<3, 3>>}

\* the voters init_scrutin may create (lines 267-281): the n1 are distinct
\* and named in the order of the file, the first voter's n2 is named <<2>>
VoterDraws ==
    {v \in [1..NVoters -> [n1 : N1Tokens, n2 : N2Tokens]] :
        /\ \A i \in 1..NVoters : v[i].n1 = N1Names[i]
        /\ v[1].n2 = <<2>>}

\* line 360: k = random.randrange(2, n_admin - 1) until gcd(k, n_admin) = 1
BlindingDraws(n) == {k \in 2..(1 + MaxBlind) : k < n - 1 /\ gcd(k, n) = 1}

\* envelopes handed to recevoir_vote directly: a plaintext and who signed it,
\* "admin" or a third party
CraftedBallots ==
    {[text |-> bulletin(<<2>>, <<2>>, <<2>>), sig |-> "forger1"],
     [text |-> bulletin(<<2>>, <<3>>, <<2>>), sig |-> "forger2"],
     [text |-> bulletin(<<2>>, <<3>>, <<2>>), sig |-> "admin"],
     [text |-> <<InvalidByte>>, sig |-> "admin"],
     [text |-> <<2>>, sig |-> "admin"]}

\* envelopes that are no pair
RawEnvelopes == {<<7>>}

\* the envelope for a crafted ballot: the plaintext with the signature of the
\* Administrateur (who signs whatever it is given) or of the third party
crafted(b, ak, tk) ==
    LET m_int == str_to_int(b.text)
        s == IF b.sig = "admin" THEN signer_aveugle(ak, m_int)
             ELSE signer_aveugle(ForgerKey(b.sig), m_int)
    IN enveloppe_pour(m_int, s, tk)

--------------------------------------------------------------------------
(* Tables of the exponentiations.  f @@ <<>> is f as an explicit table, so
   that each exponentiation is computed once. *)

ClientInputs ==
    {<<ak, tk, choix, n2, salt, k>> :
        ak \in AdminKeys, tk \in TellerKeys, choix \in Choices, n2 \in N2Tokens,
        salt \in Salts, k \in 2..(1 + MaxBlind)}

ClientMemo == [x \in ClientInputs |-> client(x[1], x[2], x[3], x[4], x[5], x[6])] @@ <<>>

Client(ak, tk, choix, n2, salt, k) == ClientMemo[<<ak, tk, choix, n2, salt, k>>]

CraftedInputs == {<<ak, tk, b>> : ak \in AdminKeys, tk \in TellerKeys, b \in CraftedBallots}

CraftedMemo == [x \in CraftedInputs |-> crafted(x[3], x[1], x[2])] @@ <<>>

Crafted(b, ak, tk) == CraftedMemo[<<ak, tk, b>>]

\* the two-element envelopes that can be in the urn under the keys ak, tk
Envelopes(ak, tk) ==
    {ClientMemo[x].enveloppe : x \in {y \in ClientInputs : y[1] = ak /\ y[2] = tk}}
    \cup {CraftedMemo[x] : x \in {y \in CraftedInputs : y[1] = ak /\ y[2] = tk}}

OuvertureMemo ==
    [x \in UNION {{<<env, tk, ak>> : env \in Envelopes(ak, tk)} :
                    <<ak, tk>> \in AdminKeys \X TellerKeys} |->
        ouvrir(x[1], x[2], x[3])] @@ <<>>

Ouverture(enveloppe, tk, ak) ==
    IF Len(enveloppe) = 2 THEN OuvertureMemo[<<enveloppe, tk, ak>>] ELSE <<>>

\* the loop with the try of line 186 put around the whole loop: the first
\* envelope that is no pair ends it
RECURSIVE boucle_arret(_, _, _, _, _)
boucle_arret(acc, u, tk, ak, h2) ==
    IF u = <<>> THEN acc
    ELSE IF Len(Head(u)) # 2
    THEN depouiller_pas(acc, Head(u), Ouverture(Head(u), tk, ak), h2)
    ELSE boucle_arret(depouiller_pas(acc, Head(u), Ouverture(Head(u), tk, ak), h2),
                      Tail(u), tk, ak, h2)

\* the loop of line 177 over the envelopes u, from the accumulators acc
RECURSIVE boucle(_, _, _, _, _)
boucle(acc, u, tk, ak, h2) ==
    IF u = <<>> THEN acc
    ELSE boucle(depouiller_pas(acc, Head(u), Ouverture(Head(u), tk, ak), h2),
                Tail(u), tk, ak, h2)

\* the counts c1 and c2 added up
cumul(c1, c2) ==
    [c \in DOMAIN c1 \cup DOMAIN c2 |->
        (IF c \in DOMAIN c1 THEN c1[c] ELSE 0) + (IF c \in DOMAIN c2 THEN c2[c] ELSE 0)]

\* depouiller with line 229 adding the new counts to self.resultats
depouiller_cumul(u, tk, ak, h2) ==
    LET fin == boucle([bulletins_valides |-> <<>>, logs |-> <<>>], u, tk, ak, h2)
    IN [resultats |-> cumul(resultats, Counter(fin.bulletins_valides)), logs |-> fin.logs]

\* lines 167-230 run without interruption: what depouiller returns
depouiller(u, tk, ak, h2) ==
    LET fin == boucle([bulletins_valides |-> <<>>, logs |-> <<>>], u, tk, ak, h2)
    IN [resultats |-> Counter(fin.bulletins_valides), logs |-> fin.logs]

--------------------------------------------------------------------------
(* State after the module is loaded: lines 237-240 and init_scrutin at 293 *)

\* the request threads of the server (app.run, line 411)
Procs == {1, 2}

\* a completed call: arg and ret are records, named by what they hold
Call(op, arg, ret) == [op |-> op, arg |-> arg, ret |-> ret]

NoValue == [none |-> TRUE]

Value(v) == [val |-> v]

\* an entry of origin: the handler that deposited, the token it used, the
\* plaintext enclosed (None for an envelope that is no pair) and the signer
Origin(via, n1, text, sig) == [via |-> via, n1 |-> n1, text |-> text, sig |-> sig]

\* a thread that runs no request
Idle ==
    [pc |-> "idle", op |-> "none", n1 |-> "", vote_chiffre |-> <<>>,
     o |-> Origin("none", "", <<>>, "none"), ret |-> "none"]

\* no depouiller is running.  debut is history: the length of the urn when
\* the running depouiller reached line 177.
DepIdle == [pc |-> "idle", i |-> 0, debut |-> 0, bulletins_valides |-> <<>>, logs |-> <<>>]

\* no computation on integers was made
RsaIdle ==
    [op |-> "none", m |-> 0, k |-> 0, m_prime |-> 0, s_prime |-> 0,
     signature |-> 0, verification |-> 0,
     enc_dec |-> 0, sig_ver |-> 0,
     bits |-> 0, p |-> 0, q |-> 0, key |-> [e |-> 0, d |-> 0, n |-> 0], erreur |-> "",
     m2 |-> 0, vus1 |-> {}, vus2 |-> {}]

\* lines 100-102 for the voters v
charger_listes(v) ==
    [valid_n1 |-> {v[i].n1 : i \in 1..Len(v)},
     hashed_n2 |-> {hash_sha256(v[i].n2) : i \in 1..Len(v)}]

Init ==
    /\ admin_key \in AdminKeys
    /\ teller_key \in TellerKeys
    /\ voters \in VoterDraws
    /\ valid_n1 = charger_listes(voters).valid_n1
    /\ hashed_n2 = charger_listes(voters).hashed_n2
    /\ urne = <<>>
    /\ resultats = <<>>
    /\ loads = 1
    /\ call = Call("init_scrutin", NoValue, NoValue)
    /\ origin = <<>>
    /\ threads = [p \in Procs |-> Idle]
    /\ dep = DepIdle
    /\ rsa = RsaIdle

--------------------------------------------------------------------------
(* The operations, each run without interruption *)

\* lines 259-290, reached through /reset (lines 317-319)
init_scrutin ==
    /\ loads < MaxLoads
    /\ loads' = loads + 1
    /\ voters' \in VoterDraws
    /\ valid_n1' = charger_listes(voters').valid_n1
    /\ hashed_n2' = charger_listes(voters').hashed_n2
    /\ urne' = <<>>
    /\ origin' = <<>>
    /\ call' = Call("init_scrutin", NoValue, NoValue)
    /\ UNCHANGED <<admin_key, teller_key, resultats, threads, dep, rsa>>

\* Commissaire.verifier_n1(n1)
VerifierN1(n1) ==
    /\ call' = Call("verifier_n1", [n1 |-> n1], Value(verifier_n1(valid_n1, n1)))
    /\ UNCHANGED <<admin_key, teller_key, valid_n1, hashed_n2, urne, resultats,
                   voters, loads, origin, threads, dep, rsa>>

\* Commissaire.verifier_n2_hash(n2_clear)
VerifierN2Hash(n2_clear) ==
    /\ call' = Call("verifier_n2_hash", [n2_clear |-> n2_clear],
                       Value(verifier_n2_hash(hashed_n2, n2_clear)))
    /\ UNCHANGED <<admin_key, teller_key, valid_n1, hashed_n2, urne, resultats,
                   voters, loads, origin, threads, dep, rsa>>

\* Commissaire.consommer_n1(n1)
ConsommerN1(n1) ==
    LET c == consommer_n1(valid_n1, n1)
    IN /\ valid_n1' = c.valid_n1
       /\ call' = Call("consommer_n1", [n1 |-> n1], Value(c.ret))
       /\ UNCHANGED <<admin_key, teller_key, hashed_n2, urne, resultats,
                      voters, loads, origin, threads, dep, rsa>>

\* Anonymiseur.recevoir_vote(commissaire, n1, vote_chiffre) for an envelope
\* given with its provenance o
Deposit(n1, vote_chiffre, o) ==
    LET r == recevoir_vote(valid_n1, urne, n1, vote_chiffre)
    IN /\ valid_n1' = r.valid_n1
       /\ urne' = r.urne
       /\ origin' = IF r.ret THEN Append(origin, o) ELSE origin
       /\ call' = Call("recevoir_vote", [n1 |-> n1, vote_chiffre |-> vote_chiffre], Value(r.ret))
       /\ UNCHANGED <<admin_key, teller_key, hashed_n2, resultats,
                      voters, loads, threads, dep, rsa>>

RecevoirVote ==
    \E n1 \in N1Tokens :
        \/ \E b \in CraftedBallots :
              Deposit(n1, Crafted(b, admin_key, teller_key),
                      Origin("recevoir_vote", n1, b.text, b.sig))
        \/ \E raw \in RawEnvelopes :
              Deposit(n1, raw, Origin("recevoir_vote", n1, None, "none"))

\* submit_vote (lines 331-401) for the voter of the file with number i
SubmitVote(i, choix, salt, k) ==
    LET n1 == voters[i].n1
        n2 == voters[i].n2
        c == Client(admin_key, teller_key, choix, n2, salt, k)
        r == recevoir_vote(valid_n1, urne, n1, c.enveloppe)
        arg == [voter |-> i]
        Ret(status, asked) == [status |-> status, asked_signature |-> asked]
    IN /\ k \in BlindingDraws(admin_key.n)
       /\ IF ~verifier_n1(valid_n1, n1)
          THEN /\ call' = Call("submit_vote", arg, Ret("ineligible", FALSE))
               /\ UNCHANGED <<valid_n1, urne, origin>>
          ELSE IF ~c.check
          THEN /\ call' = Call("submit_vote", arg, Ret("signature_mismatch", TRUE))
               /\ UNCHANGED <<valid_n1, urne, origin>>
          ELSE /\ valid_n1' = r.valid_n1
               /\ urne' = r.urne
               /\ origin' = IF r.ret
                            THEN Append(origin, Origin("submit_vote", n1,
                                                       bulletin(choix, n2, salt), "admin"))
                            ELSE origin
               /\ call' = Call("submit_vote", arg,
                               Ret(IF r.ret THEN "ok" ELSE "deposit_rejected", TRUE))
       /\ UNCHANGED <<admin_key, teller_key, hashed_n2, resultats,
                      voters, loads, threads, dep, rsa>>

\* route_depouiller (lines 403-408): Decompteur.depouiller.  The call records
\* whether the call before it was a depouiller too.
Depouiller ==
    LET r == depouiller(urne, teller_key, admin_key, hashed_n2)
    IN /\ resultats' = r.resultats
       /\ call' = Call("depouiller", [again |-> call.op = "depouiller"], r)
       /\ UNCHANGED <<admin_key, teller_key, valid_n1, hashed_n2, urne,
                      voters, loads, origin, threads, dep, rsa>>

Next ==
    \/ init_scrutin
    \/ \E n1 \in N1Tokens : VerifierN1(n1)
    \/ \E n2 \in N2Tokens : VerifierN2Hash(n2)
    \/ \E n1 \in N1Tokens : ConsommerN1(n1)
    \/ RecevoirVote
    \/ \E i \in 1..NVoters, choix \in Choices, salt \in Salts, k \in 2..(1 + MaxBlind) :
          SubmitVote(i, choix, salt, k)
    \/ Depouiller

Spec == Init /\ [][Next]_vars

--------------------------------------------------------------------------
(* One round: the operations reached through the routes of a running
   election, after init_scrutin and without /reset *)

NextScrutin ==
    \/ RecevoirVote
    \/ \E i \in 1..NVoters, choix \in Choices, salt \in Salts, k \in 2..(1 + MaxBlind) :
          SubmitVote(i, choix, salt, k)
    \/ Depouiller

SpecScrutin == Init /\ [][NextScrutin]_vars

--------------------------------------------------------------------------
(* The same handlers run by concurrent request threads.  A thread may be
   interrupted between the membership test of line 109, the removal of line
   110 and the append of line 154; the loop of depouiller runs one envelope
   at a time over the list the other threads append to. *)

\* the envelopes and form values the concurrent requests use
ConcBallots ==
    {b \in CraftedBallots : b.text = bulletin(<<2>>, <<3>>, <<2>>) /\ b.sig = "admin"}

ConcChoices == {<<2>>, <<3>>}

\* what the handler op returns when recevoir_vote returned (or raised) outcome:
\* lines 395-401 for submit_vote
Retour(op, outcome) ==
    IF op # "submit_vote" THEN outcome
    ELSE IF outcome = "True" THEN "ok"
    ELSE IF outcome = "False" THEN "deposit_rejected"
    ELSE outcome

\* a thread enters recevoir_vote(commissaire, n1, vote_chiffre), line 147
AppelRecevoirVote(p, n1, vote_chiffre, o) ==
    /\ threads[p].pc = "idle"
    /\ threads' = [threads EXCEPT ![p] =
                      [pc |-> "test", op |-> "recevoir_vote", n1 |-> n1,
                       vote_chiffre |-> vote_chiffre, o |-> o, ret |-> "none"]]
    /\ UNCHANGED <<admin_key, teller_key, valid_n1, hashed_n2, urne, resultats,
                   voters, loads, call, origin, dep, rsa>>

\* a thread runs submit_vote from line 331 up to the call of line 393: the
\* eligibility check of lines 345-346, then the client computation, which
\* reads no shared mutable state
AppelSubmitVote(p, i, choix, salt, k) ==
    LET n1 == voters[i].n1
        n2 == voters[i].n2
        c == Client(admin_key, teller_key, choix, n2, salt, k)
        o == Origin("submit_vote", n1, bulletin(choix, n2, salt), "admin")
        Entre(pc, ret) == [pc |-> pc, op |-> "submit_vote", n1 |-> n1,
                           vote_chiffre |-> c.enveloppe, o |-> o, ret |-> ret]
    IN /\ threads[p].pc = "idle"
       /\ k \in BlindingDraws(admin_key.n)
       /\ threads' = [threads EXCEPT ![p] =
                         IF ~verifier_n1(valid_n1, n1) THEN Entre("done", "ineligible")
                         ELSE IF ~c.check THEN Entre("done", "signature_mismatch")
                         ELSE Entre("test", "none")]
       /\ UNCHANGED <<admin_key, teller_key, valid_n1, hashed_n2, urne, resultats,
                      voters, loads, call, origin, dep, rsa>>

\* line 109: if n1 in self.valid_n1; lines 111-112 and 155-156 when it is not
TestN1(p) ==
    /\ threads[p].pc = "test"
    /\ threads' = [threads EXCEPT ![p] =
                      IF threads[p].n1 \in valid_n1 THEN [@ EXCEPT !.pc = "remove"]
                      ELSE [@ EXCEPT !.pc = "done", !.ret = Retour(threads[p].op, "False")]]
    /\ UNCHANGED <<admin_key, teller_key, valid_n1, hashed_n2, urne, resultats,
                   voters, loads, call, origin, dep, rsa>>

\* line 110: self.valid_n1.remove(n1); set.remove raises KeyError when the
\* element is gone, and neither recevoir_vote nor submit_vote catches it
RemoveN1(p) ==
    /\ threads[p].pc = "remove"
    /\ IF threads[p].n1 \in valid_n1
       THEN /\ valid_n1' = valid_n1 \ {threads[p].n1}
            /\ threads' = [threads EXCEPT ![p].pc = "append"]
       ELSE /\ valid_n1' = valid_n1
            /\ threads' = [threads EXCEPT ![p] =
                             [@ EXCEPT !.pc = "done", !.ret = Retour(threads[p].op, "KeyError")]]
    /\ UNCHANGED <<admin_key, teller_key, hashed_n2, urne, resultats,
                   voters, loads, call, origin, dep, rsa>>

\* lines 154-155: self.urne.append(vote_chiffre); return True
AppendUrne(p) ==
    /\ threads[p].pc = "append"
    /\ urne' = Append(urne, threads[p].vote_chiffre)
    /\ origin' = Append(origin, threads[p].o)
    /\ threads' = [threads EXCEPT ![p] =
                      [@ EXCEPT !.pc = "done", !.ret = Retour(threads[p].op, "True")]]
    /\ UNCHANGED <<admin_key, teller_key, valid_n1, hashed_n2, resultats,
                   voters, loads, call, dep, rsa>>

\* depouiller starts: lines 167-176
DepDebut ==
    /\ dep.pc = "idle"
    /\ dep' = [pc |-> "loop", i |-> 1, debut |-> Len(urne),
               bulletins_valides |-> <<>>, logs |-> <<>>]
    /\ UNCHANGED <<admin_key, teller_key, valid_n1, hashed_n2, urne, resultats,
                   voters, loads, call, origin, threads, rsa>>

\* one iteration of the loop of line 177 over the list anonymiseur.urne
DepPas ==
    /\ dep.pc = "loop"
    /\ dep.i <= Len(urne)
    /\ LET acc == depouiller_pas([bulletins_valides |-> dep.bulletins_valides,
                                  logs |-> dep.logs],
                                 urne[dep.i],
                                 Ouverture(urne[dep.i], teller_key, admin_key),
                                 hashed_n2)
       IN dep' = [pc |-> "loop", i |-> dep.i + 1, debut |-> dep.debut,
                  bulletins_valides |-> acc.bulletins_valides, logs |-> acc.logs]
    /\ UNCHANGED <<admin_key, teller_key, valid_n1, hashed_n2, urne, resultats,
                   voters, loads, call, origin, threads, rsa>>

\* the list is exhausted: lines 228-230
DepFin ==
    /\ dep.pc = "loop"
    /\ dep.i > Len(urne)
    /\ resultats' = Counter(dep.bulletins_valides)
    /\ call' = Call("depouiller", [again |-> call.op = "depouiller"],
                    [resultats |-> Counter(dep.bulletins_valides), logs |-> dep.logs])
    /\ dep' = DepIdle
    /\ UNCHANGED <<admin_key, teller_key, valid_n1, hashed_n2, urne,
                   voters, loads, origin, threads, rsa>>

NextConc ==
    \/ \E p \in Procs, n1 \in N1Tokens, b \in ConcBallots :
          AppelRecevoirVote(p, n1, Crafted(b, admin_key, teller_key),
                            Origin("recevoir_vote", n1, b.text, b.sig))
    \/ \E p \in Procs, n1 \in N1Tokens, raw \in RawEnvelopes :
          AppelRecevoirVote(p, n1, raw, Origin("recevoir_vote", n1, None, "none"))
    \/ \E p \in Procs, i \in 1..NVoters, choix \in ConcChoices, salt \in Salts,
          k \in 2..(1 + MaxBlind) : AppelSubmitVote(p, i, choix, salt, k)
    \/ \E p \in Procs : TestN1(p)
    \/ \E p \in Procs : RemoveN1(p)
    \/ \E p \in Procs : AppendUrne(p)
    \/ DepDebut
    \/ DepPas
    \/ DepFin

SpecConc == Init /\ [][NextConc]_vars

--------------------------------------------------------------------------
(* The blind-signature computation on integers, for every keypair
   generate_keypair(RsaBits) can return and every message below the modulus *)

RsaKeys == generate_keypair(RsaBits)

\* the objects of lines 237-240 with keys of RsaBits bits, before the lists
\* are loaded; the Decompteur's key plays no part
InitRSA ==
    /\ admin_key \in RsaKeys
    /\ teller_key = admin_key
    /\ voters = <<>>
    /\ valid_n1 = {}
    /\ hashed_n2 = {}
    /\ urne = <<>>
    /\ resultats = <<>>
    /\ loads = 0
    /\ call = Call("init", NoValue, NoValue)
    /\ origin = <<>>
    /\ threads = [p \in Procs |-> Idle]
    /\ dep = DepIdle
    /\ rsa = RsaIdle

\* lines 356-378 on the integer m with the blinding factor k, once
SignatureAveugle(m, k) ==
    LET sa == signature_aveugle(admin_key, m, k)
    IN /\ rsa.op = "none"
       /\ k \in BlindingDraws(admin_key.n)
       /\ rsa' = [RsaIdle EXCEPT !.op = "signature_aveugle", !.m = m, !.k = k,
                                  !.m_prime = sa.m_prime, !.s_prime = sa.s_prime,
                                  !.signature = sa.signature,
                                  !.verification = sa.verification]
       /\ UNCHANGED <<admin_key, teller_key, valid_n1, hashed_n2, urne, resultats,
                      voters, loads, call, origin, threads, dep>>

\* the integers RSA is applied to in the protocol, on x in [0, n): encryption
\* then decryption (lines 387, 190) and signature then verification (lines
\* 136, 209) under one keypair
AllerRetour(x) ==
    /\ rsa.op = "none"
    /\ rsa' = [RsaIdle EXCEPT
                  !.op = "aller_retour", !.m = x,
                  !.enc_dec = pow(pow(x, admin_key.e, admin_key.n), admin_key.d, admin_key.n),
                  !.sig_ver = pow(signer_aveugle(admin_key, x), admin_key.e, admin_key.n)]
    /\ UNCHANGED <<admin_key, teller_key, valid_n1, hashed_n2, urne, resultats,
                   voters, loads, call, origin, threads, dep>>

\* the values generate_large_prime returns, by requested bit size
PrimesOf == [bits \in 1..(RsaBits \div 2) |-> generate_large_prime(bits)] @@ <<>>

\* lines 36-42: a call generate_large_prime(bits) that returns v
GenerateLargePrime(bits, v) ==
    /\ rsa.op = "none"
    /\ v \in PrimesOf[bits]
    /\ rsa' = [RsaIdle EXCEPT !.op = "generate_large_prime", !.bits = bits, !.p = v]
    /\ UNCHANGED <<admin_key, teller_key, valid_n1, hashed_n2, urne, resultats,
                   voters, loads, call, origin, threads, dep>>

\* lines 53-67: a call generate_keypair(bits) that draws p and q and returns
\* key; no line of it raises
GenerateKeypair(bits, p, q, key) ==
    /\ rsa.op = "none"
    /\ p \in PrimesOf[bits \div 2]
    /\ q \in PrimesOf[bits \div 2]
    /\ key \in keypair(p, q)
    /\ rsa' = [RsaIdle EXCEPT !.op = "generate_keypair", !.bits = bits,
                              !.p = p, !.q = q, !.key = key]
    /\ UNCHANGED <<admin_key, teller_key, valid_n1, hashed_n2, urne, resultats,
                   voters, loads, call, origin, threads, dep>>

\* lines 359-362: the values the loop can leave in k, random.randrange(2,
\* n_admin - 1) with gcd(k, n_admin) = 1
Admissibles(n) == {k \in 2..(n - 2) : gcd(k, n) = 1}

\* the values m_prime of line 366 that signer_aveugle can be given for the
\* ballot integer m_int, over all k
Masques(ak, m_int) == {masquer(ak, m_int, k) : k \in Admissibles(ak.n)}

\* lines 359-369 for two ballot integers: what the Administrateur can see of each
Masquer(m1, m2) ==
    /\ rsa.op = "none"
    /\ gcd(m1, admin_key.n) = 1
    /\ gcd(m2, admin_key.n) = 1
    /\ rsa' = [RsaIdle EXCEPT !.op = "masquer", !.m = m1, !.m2 = m2,
                              !.vus1 = Masques(admin_key, m1),
                              !.vus2 = Masques(admin_key, m2)]
    /\ UNCHANGED <<admin_key, teller_key, valid_n1, hashed_n2, urne, resultats,
                   voters, loads, call, origin, threads, dep>>

\* one computation is made from each initial state
NextRSA ==
    /\ rsa.op = "none"
    /\ \/ \E bits \in 1..(RsaBits \div 2), v \in 0..(2^(RsaBits \div 2)) :
             GenerateLargePrime(bits, v)
       \/ \E p, q \in PrimesOf[RsaBits \div 2], key \in RsaKeys :
             GenerateKeypair(RsaBits, p, q, key)
       \/ \E m \in 0..(admin_key.n - 1), k \in 2..(1 + MaxBlind) : SignatureAveugle(m, k)
       \/ \E x \in 0..(admin_key.n - 1) : AllerRetour(x)
       \/ \E m1, m2 \in 1..MaxMsg : Masquer(m1, m2)

SpecRSA == InitRSA /\ [][NextRSA]_vars

--------------------------------------------------------------------------
(* Claims checked under Spec *)

\* C1: a call consommer_n1(t) returns True exactly when t is in valid_n1, and
\* then removes t and nothing else; a call that returns False leaves valid_n1
\* as it is; and no operation other than a reload puts a token back.  So
\* between two charger_listes each token gets True at most once, from the
\* first call made while it is still there, and every later call gets False
\* and changes nothing.
C1_ConsommeUneFois ==
    [][/\ call'.op = "consommer_n1" =>
            /\ call'.ret.val = (call'.arg.n1 \in valid_n1)
            /\ valid_n1' = valid_n1 \ {call'.arg.n1}
            /\ call'.arg.n1 \notin valid_n1'
       /\ loads' = loads => valid_n1' \subseteq valid_n1]_vars

\* a token of the loaded list was consumed by consommer_n1 and a later
\* consommer_n1 of the same token has returned False
C1_Witness ==
    /\ call = Call("consommer_n1", [n1 |-> "A1"], Value(FALSE))
    /\ loads = 1
    /\ urne = <<>>
    /\ "A1" \notin valid_n1
    /\ "A1" \in charger_listes(voters).valid_n1

\* the positions of the urn whose envelope came in under the token n1
DepositsUnder(n1) == {i \in DOMAIN origin : origin[i].n1 = n1}

\* C2: a recevoir_vote call under a token that already brought an envelope
\* into the urn returns False and leaves the urn and the registry as they
\* are, whatever the envelope; a call under a token still in valid_n1 returns
\* True and appends its envelope at the end.  So of two envelopes deposited
\* under one token the urn holds the first and never gains the second, and
\* no two envelopes of the urn came in under the same token.
C2_DoubleDepot ==
    [][/\ call'.op = "recevoir_vote" =>
            LET n1 == call'.arg.n1
                vote_chiffre == call'.arg.vote_chiffre
            IN /\ DepositsUnder(n1) # {} =>
                     /\ call'.ret.val = FALSE
                     /\ urne' = urne
                     /\ valid_n1' = valid_n1
               /\ call'.ret.val = (n1 \in valid_n1)
               /\ call'.ret.val => urne' = Append(urne, vote_chiffre)
       /\ Len(origin') = Len(urne')
       /\ \A n1 \in N1Tokens : Cardinality(DepositsUnder(n1)') <= 1]_vars

\* two distinct two-element envelopes were handed to recevoir_vote under the
\* token A1: the first is in the urn, the second was refused
C2_Witness ==
    /\ call.op = "recevoir_vote"
    /\ call.arg.n1 = "A1"
    /\ call.ret.val = FALSE
    /\ Len(call.arg.vote_chiffre) = 2
    /\ \E i \in DepositsUnder("A1") :
          /\ origin[i].via = "recevoir_vote"
          /\ Len(urne[i]) = 2
          /\ urne[i] # call.arg.vote_chiffre
    /\ \A i \in DOMAIN urne : urne[i] # call.arg.vote_chiffre

\* the urn positions of the honest casts: deposited by submit_vote with a
\* choice that does not contain the separator
Honnetes == {i \in DOMAIN origin : origin[i].via = "submit_vote" /\ Len(split(origin[i].text)) = 3}

\* the choice written on the ballot that came in at position i
ChoixDe(i) == split(origin[i].text)[1]

\* C4: after a depouiller, every honest cast that was deposited has a success
\* entry with its choice at its place in the log, and when the urn holds
\* honest casts only the counts are the numbers of casts per choice.
C4_HonnetesComptes ==
    call.op = "depouiller" =>
        /\ \A i \in Honnetes :
              call.ret.logs[i] = LogEntry("Succes: Vote valide", ChoixDe(i))
        /\ Honnetes = DOMAIN origin =>
              resultats = Counter([i \in DOMAIN origin |-> ChoixDe(i)])

\* what the Decompteur reads in the envelope at position i of the urn: the
\* decrypted integers (lines 190-191, 209) and the decoded text (line 193)
Ouvert(i) == Ouverture(urne[i], teller_key, admin_key)

Clair(i) == int_to_str(Ouvert(i).m_int)

\* the envelope at position i decodes to a ballot of three parts
TroisParties(i) ==
    /\ Len(urne[i]) = 2
    /\ Clair(i) # None
    /\ Len(split(Clair(i))) = 3

EstSucces(entry) == entry.kind = "Succes: Vote valide"

\* the counts of the choices quoted by the success entries of logs
ComptesDe(logs) ==
    LET succes == SelectSeq(logs, EstSucces)
    IN Counter([j \in DOMAIN succes |-> succes[j].detail])

\* C6: after a depouiller, every envelope of the urn that decodes to a
\* three-part ballot and whose signature component was computed by a third
\* party with a keypair of its own (not the Administrateur's) has the
\* forged-signature entry at its place in the log, and the counts are those of
\* the success entries, of which it is none.
C6_SignatureForgee ==
    call.op = "depouiller" =>
        \A i \in DOMAIN origin :
            origin[i].sig \in Forgers /\ TroisParties(i) =>
                /\ call.ret.logs[i] =
                      LogEntry("Fraude: Signature admin invalide", split(Clair(i))[2])
                /\ resultats = ComptesDe(call.ret.logs)

\* a three-part ballot with a registered N2, signed by a third party, is in
\* the urn and depouiller has logged it as forged
C6_Witness ==
    /\ call.op = "depouiller"
    /\ \E i \in DOMAIN origin :
          /\ origin[i].sig \in Forgers
          /\ TroisParties(i)
          /\ verifier_n2_hash(hashed_n2, split(Clair(i))[2])
          /\ call.ret.logs[i].kind = "Fraude: Signature admin invalide"
    /\ \E j \in DOMAIN origin : EstSucces(call.ret.logs[j])

\* the envelope at position i decodes to a three-part ballot whose N2 has no
\* digest in hashed_n2
N2Inconnu(i) == TroisParties(i) /\ ~verifier_n2_hash(hashed_n2, split(Clair(i))[2])

\* C7 as stated: after a depouiller, every envelope whose ballot carries an N2
\* whose digest is not in hashed_n2 has the invalid-N2 entry at its place in
\* the log and is not counted.
C7_N2InconnuRejete ==
    call.op = "depouiller" =>
        \A i \in DOMAIN origin :
            N2Inconnu(i) =>
                /\ call.ret.logs[i] = LogEntry("Fraude: Code N2 invalide", split(Clair(i))[2])
                /\ resultats = ComptesDe(call.ret.logs)

\* C7 amended: after a depouiller, every envelope whose ballot carries an N2
\* whose digest is not in hashed_n2 is left out of the counts; its log entry
\* is the invalid-N2 entry when the Administrateur's signature on the ballot
\* verifies, and the forged-signature entry when it does not (the signature
\* is checked first).
C7_N2InconnuSigne ==
    call.op = "depouiller" =>
        \A i \in DOMAIN origin :
            N2Inconnu(i) =>
                /\ call.ret.logs[i] =
                      LogEntry(IF Ouvert(i).verification = Ouvert(i).m_int
                               THEN "Fraude: Code N2 invalide"
                               ELSE "Fraude: Signature admin invalide",
                               split(Clair(i))[2])
                /\ resultats = ComptesDe(call.ret.logs)

\* a ballot with an unregistered N2 and a valid signature of the
\* Administrateur is in the urn and depouiller has logged the invalid N2
C7_Witness ==
    /\ call.op = "depouiller"
    /\ \E i \in DOMAIN origin :
          /\ N2Inconnu(i)
          /\ Ouvert(i).verification = Ouvert(i).m_int
          /\ call.ret.logs[i].kind = "Fraude: Code N2 invalide"
    /\ \E j \in DOMAIN origin : EstSucces(call.ret.logs[j])

\* C8: a depouiller that directly follows a depouiller, with the same urn and
\* lists, returns the counts and the log the first one returned; and every
\* depouiller leaves in resultats the counts of its own run, those of the
\* success entries of its log, whatever resultats held before.
C8_DepouillerDeuxFois ==
    [][call'.op = "depouiller" =>
          /\ resultats' = call'.ret.resultats
          /\ resultats' = ComptesDe(call'.ret.logs)
          /\ call.op = "depouiller" => call'.ret = call.ret /\ resultats' = resultats]_vars

\* depouiller has run twice in a row on an urn of two envelopes, one of them
\* counted
C8_Witness ==
    /\ call.op = "depouiller"
    /\ call.arg.again
    /\ Len(urne) = 2
    /\ DOMAIN resultats # {}

\* the number of ballots counted in the counts r
Total(r) == Cardinality(UNION {{<<c, j>> : j \in 1..r[c]} : c \in DOMAIN r})

\* C9: after a depouiller the log has one entry per envelope of the urn, the
\* entry at place i being the one depouiller gives the envelope at place i
\* when it is alone in the urn (an envelope that is no pair gets the
\* exception entry and the loop goes on), and the counts add up to the number
\* of success entries.
C9_UneEntreeParEnveloppe ==
    call.op = "depouiller" =>
        /\ Len(call.ret.logs) = Len(urne)
        /\ \A i \in DOMAIN urne :
              /\ call.ret.logs[i] =
                    depouiller(<<urne[i]>>, teller_key, admin_key, hashed_n2).logs[1]
              /\ Len(urne[i]) # 2 => call.ret.logs[i].kind = "Exception"
        /\ Total(resultats) = Len(SelectSeq(call.ret.logs, EstSucces))

\* the urn holds an envelope that is no pair followed by a valid ballot:
\* depouiller has logged the exception and then counted the ballot
C9_Witness ==
    /\ call.op = "depouiller"
    /\ Len(urne) = 2
    /\ Len(urne[1]) # 2
    /\ call.ret.logs[1].kind = "Exception"
    /\ EstSucces(call.ret.logs[2])
    /\ Total(resultats) = 1

\* the ballots submit_vote can write (line 351)
Bulletins ==
    {bulletin(choix, n2, salt) : choix \in Choices, n2 \in N2Tokens, salt \in Salts}

\* for each ballot text: does the unblinded signature of the Administrateur
\* on it verify (line 378), whatever the blinding factor
AutoControleMemo ==
    [x \in AdminKeys \X Bulletins |->
        \A k \in BlindingDraws(x[1].n) :
            signature_aveugle(x[1], str_to_int(x[2]), k).verification = str_to_int(x[2])] @@ <<>>

\* C13: a submit_vote attempt for a voter whose token is not in valid_n1
\* ends with the ineligible-voter error, has asked for no blind signature and
\* changes neither the registry nor the urn; an attempt that ends with the
\* signature-mismatch error changes neither; and an attempt that changes the
\* registry or the urn was made with a token in valid_n1, wrote a ballot
\* whose unblinded signature verifies, removes exactly its token and appends
\* exactly one envelope, that ballot's, at the end of the urn.
C13_DepotEnDernier ==
    [][call'.op = "submit_vote" =>
          LET n1 == voters[call'.arg.voter].n1
              ret == call'.ret
          IN /\ n1 \notin valid_n1 =>
                   /\ ret.status = "ineligible"
                   /\ ~ret.asked_signature
                   /\ valid_n1' = valid_n1 /\ urne' = urne
             /\ ret.status = "signature_mismatch" =>
                   valid_n1' = valid_n1 /\ urne' = urne
             /\ (valid_n1' # valid_n1 \/ urne' # urne) =>
                   /\ n1 \in valid_n1
                   /\ ret.status = "ok" /\ ret.asked_signature
                   /\ valid_n1' = valid_n1 \ {n1}
                   /\ Len(urne') = Len(urne) + 1
                   /\ SubSeq(urne', 1, Len(urne)) = urne
                   /\ origin'[Len(urne')].n1 = n1
                   /\ AutoControleMemo[<<admin_key, origin'[Len(urne')].text>>]]_vars

\* a submit_vote attempt has failed the self-check of line 378 after another
\* voter's cast was deposited: the attempt's token is still in valid_n1
C13_Witness ==
    /\ call.op = "submit_vote"
    /\ call.ret.status = "signature_mismatch"
    /\ call.ret.asked_signature
    /\ voters[call.arg.voter].n1 \in valid_n1
    /\ Len(urne) = 1
    /\ origin[1].via = "submit_vote"

\* C17: between two charger_listes calls valid_n1 only shrinks: every step
\* that is not a reload leaves valid_n1 a subset of what it was, so a token
\* once removed is never back, and valid_n1 is always a subset of the tokens
\* given to the last charger_listes.
C17_JamaisReinsere ==
    [][/\ loads' = loads => valid_n1' \subseteq valid_n1
       /\ valid_n1' \subseteq charger_listes(voters').valid_n1]_vars

\* a token was consumed by a deposit, and a later submit_vote for it was
\* refused: the token is still out of valid_n1
C17_Witness ==
    /\ call.op = "submit_vote"
    /\ call.ret.status = "ineligible"
    /\ voters[call.arg.voter].n1 \notin valid_n1
    /\ DepositsUnder(voters[call.arg.voter].n1) # {}
    /\ valid_n1 # {}

\* C18: verifier_n1, verifier_n2_hash and depouiller leave valid_n1,
\* hashed_n2 and the urn as they are, and the two verifiers leave resultats
\* too; a recevoir_vote that returns False leaves valid_n1, hashed_n2 and the
\* urn as they are; one that returns True removes its token and no other
\* from valid_n1, appends its envelope at the end of the urn with the earlier
\* envelopes in place, and leaves hashed_n2 as it is.
C18_Cadres ==
    [][/\ call'.op \in {"verifier_n1", "verifier_n2_hash", "depouiller"} =>
            valid_n1' = valid_n1 /\ hashed_n2' = hashed_n2 /\ urne' = urne
       /\ call'.op \in {"verifier_n1", "verifier_n2_hash"} => resultats' = resultats
       /\ call'.op = "recevoir_vote" =>
            /\ hashed_n2' = hashed_n2
            /\ resultats' = resultats
            /\ ~call'.ret.val => valid_n1' = valid_n1 /\ urne' = urne
            /\ call'.ret.val =>
                  /\ call'.arg.n1 \in valid_n1
                  /\ valid_n1' = valid_n1 \ {call'.arg.n1}
                  /\ Len(urne') = Len(urne) + 1
                  /\ \A i \in DOMAIN urne : urne'[i] = urne[i]
                  /\ urne'[Len(urne')] = call'.arg.vote_chiffre]_vars

\* recevoir_vote has returned True with another envelope already in the
\* urn, after a depouiller had set resultats
C18_Witness ==
    /\ call.op = "recevoir_vote"
    /\ call.ret.val
    /\ Len(urne) = 2
    /\ urne[2] = call.arg.vote_chiffre
    /\ urne[1] # urne[2]
    /\ DOMAIN resultats # {}

\* the four checks of depouiller on the envelope at position i, each on its
\* own: the text decodes (line 194), it has three parts (line 200), the
\* signature verifies (line 211), the N2 is registered (line 216)
Decode(i) == Clair(i) # None /\ Clair(i) # <<>>

Trois(i) == Len(split(Clair(i))) = 3

SignatureValide(i) == Ouvert(i).verification = Ouvert(i).m_int

N2Connu(i) == verifier_n2_hash(hashed_n2, split(Clair(i))[2])

\* the kind of entry of the first of the four checks that fails
PremierEchec(i) ==
    IF ~Decode(i) THEN "Erreur: Impossible de decoder"
    ELSE IF ~Trois(i) THEN "Erreur: Format bulletin invalide"
    ELSE IF ~SignatureValide(i) THEN "Fraude: Signature admin invalide"
    ELSE IF ~N2Connu(i) THEN "Fraude: Code N2 invalide"
    ELSE "Succes: Vote valide"

\* C19: after a depouiller, every two-element envelope has in the log the
\* entry of the first check it fails, in the order decode, three parts,
\* signature, N2, and the success entry only if it passes all four; the counts
\* are those of the success entries; and a ballot written by submit_vote with
\* a "||" inside its choice, when it decrypts to what was written, has the
\* invalid-format entry.
C19_PremierEchec ==
    call.op = "depouiller" =>
        /\ \A i \in DOMAIN urne :
              Len(urne[i]) = 2 =>
                  /\ call.ret.logs[i].kind = PremierEchec(i)
                  /\ (Clair(i) = origin[i].text /\ Len(split(origin[i].text)) > 3) =>
                        call.ret.logs[i].kind = "Erreur: Format bulletin invalide"
        /\ resultats = ComptesDe(call.ret.logs)

\* the urn holds a three-part ballot with a forged signature and an
\* unregistered N2, logged as forged, and a ballot cast with the choice "||",
\* logged as malformed
C19_Witness ==
    /\ call.op = "depouiller"
    /\ Len(urne) = 2
    /\ Len(urne[1]) = 2
    /\ Decode(1) /\ Trois(1) /\ ~SignatureValide(1) /\ ~N2Connu(1)
    /\ call.ret.logs[1].kind = "Fraude: Signature admin invalide"
    /\ origin[2].via = "submit_vote"
    /\ Clair(2) = origin[2].text
    /\ split(origin[2].text)[1] = <<>>
    /\ call.ret.logs[2].kind = "Erreur: Format bulletin invalide"

--------------------------------------------------------------------------
(* Claims checked under SpecConc *)

\* both threads ran the handler op under the token n1 and have returned
DeuxAppels(p, q, op, n1) ==
    /\ p # q
    /\ threads[p].op = op /\ threads[q].op = op
    /\ threads[p].n1 = n1 /\ threads[q].n1 = n1
    /\ threads[p].pc = "done" /\ threads[q].pc = "done"

\* C3: when two concurrent recevoir_vote calls under one valid token have
\* both ended, whatever the interleaving of lines 109, 110 and 154, one has
\* returned True, the other has returned False (it did not raise), the urn
\* holds exactly one envelope deposited under the token and the token is
\* consumed.
C3_UnSeulSucces ==
    \A p, q \in Procs, n1 \in N1Tokens :
        DeuxAppels(p, q, "recevoir_vote", n1) =>
            /\ {threads[p].ret, threads[q].ret} = {"True", "False"}
            /\ Cardinality(DepositsUnder(n1)) = 1
            /\ n1 \notin valid_n1

\* a depouiller has returned that went through the whole urn as it is now
DepouilleTout ==
    /\ dep.pc = "idle"
    /\ call.op = "depouiller"
    /\ Len(call.ret.logs) = Len(urne)

\* C5: when submit_vote has run twice for one voter, one after the other or
\* interleaved, one attempt has succeeded and the other has ended with the
\* ineligible-voter error or the deposit-rejected error, the urn has gained
\* exactly one envelope of that voter, and a depouiller that follows counts
\* that one ballot.
C5_DeuxTentatives ==
    \A p, q \in Procs, n1 \in N1Tokens :
        DeuxAppels(p, q, "submit_vote", n1) =>
            /\ \/ {threads[p].ret, threads[q].ret} = {"ok", "ineligible"}
               \/ {threads[p].ret, threads[q].ret} = {"ok", "deposit_rejected"}
            /\ Cardinality(DepositsUnder(n1)) = 1
            /\ DepouilleTout =>
                  \A i \in DepositsUnder(n1) :
                      call.ret.logs[i].kind = "Succes: Vote valide"

--------------------------------------------------------------------------
(* Claims checked under SpecRSA *)

\* C10: for every keypair generate_keypair returns to the Administrateur,
\* every message m in [0, n) and every blinding factor k coprime to n, the
\* unblinded signature verifies: s^e mod n = m.
C10_SignatureAveugleCorrecte ==
    rsa.op = "signature_aveugle" => rsa.verification = rsa.m

\* C11: for every keypair generate_keypair returns (whatever the two values
\* generate_large_prime gave it, equal ones included) and every x in [0, n):
\* decrypting the encryption of x gives x, and verifying the signature of x
\* gives x.
C11_AllerRetour ==
    rsa.op = "aller_retour" => rsa.enc_dec = rsa.m /\ rsa.sig_ver = rsa.m

\* C12: a generate_keypair call that draws p == q ends with the
\* degenerate-key-generation error and returns no keypair.
C12_ClesDegenerees ==
    rsa.op = "generate_keypair" /\ rsa.p = rsa.q =>
        rsa.erreur = "DegenerateKeyGeneration" /\ rsa.key = RsaIdle.key

\* the invertible residues modulo n
Unites(n) == {u \in 1..(n - 1) : gcd(u, n) = 1}

\* for each keypair: does u -> u^e mod n permute the invertible residues
PermuteMemo ==
    [ak \in RsaKeys |-> {pow(u, ak.e, ak.n) : u \in Unites(ak.n)} = Unites(ak.n)] @@ <<>>

\* C15 as stated: for two ballot integers invertible modulo n_admin, the
\* blinded values signer_aveugle can be given are the same set for both.
C15_MemesMasques ==
    rsa.op = "masquer" => rsa.vus1 = rsa.vus2

\* C15 amended: the blinded values of a ballot m are m times a blinding
\* factor drawn from a set that does not depend on the ballot, so the values
\* of m2 are those of m1 multiplied by m2 / m1 modulo n; and when k -> k^e
\* permutes the invertible residues they are all the invertible residues but
\* m and n - m, which k = 1 and k = n - 1, both left out of the draw, would give.
C15_MasquesDecales ==
    rsa.op = "masquer" =>
        LET n == admin_key.n
            t == mulmod(rsa.m2, modinv(rsa.m, n), n)
        IN /\ rsa.vus2 = {mulmod(t, v, n) : v \in rsa.vus1}
           /\ PermuteMemo[admin_key] =>
                 /\ rsa.vus1 = Unites(n) \ {rsa.m, n - rsa.m}
                 /\ rsa.vus2 = Unites(n) \ {rsa.m2, n - rsa.m2}

\* two different ballot integers were blinded under a keypair whose
\* exponent permutes the invertible residues: each can be blinded to the
\* other, none to itself
C15_Witness ==
    /\ rsa.op = "masquer"
    /\ PermuteMemo[admin_key]
    /\ rsa.m # rsa.m2
    /\ rsa.m2 \in rsa.vus1 /\ rsa.m \in rsa.vus2
    /\ rsa.m \notin rsa.vus1 /\ rsa.m2 \notin rsa.vus2

\* C16: every value generate_large_prime(bits) returns is odd and has exactly
\* bits bits: 2^(bits-1) <= v < 2^bits.
C16_TailleExacte ==
    rsa.op = "generate_large_prime" =>
        /\ rsa.p % 2 = 1
        /\ 2^(rsa.bits - 1) <= rsa.p
        /\ rsa.p < 2^rsa.bits

--------------------------------------------------------------------------
(* Claims checked under SpecConc, continued *)

\* C14: a running depouiller works on the urn as it was when the loop of
\* line 177 started: it makes no log entry for an envelope deposited after
\* that, so it never holds more entries than the urn had envelopes then.
C14_UrneFigee ==
    dep.pc = "loop" => Len(dep.logs) <= dep.debut

--------------------------------------------------------------------------
(* Claims checked under SpecScrutin *)

\* the number of distinct primary tokens given to charger_listes
Charges == Cardinality(charger_listes(voters).valid_n1)

\* C20: in every state of a round reached by submit_vote, recevoir_vote and
\* depouiller, the envelopes of the urn and the tokens left in valid_n1 are
\* together as many as the distinct tokens loaded, and the counts of a
\* depouiller add up to at most that number.
C20_Conservation ==
    /\ Len(urne) + Cardinality(valid_n1) = Charges
    /\ Total(resultats) <= Charges
    /\ call.op = "depouiller" => Total(call.ret.resultats) <= Len(urne)

\* every token was used for a deposit and depouiller has counted every
\* envelope
C20_Witness ==
    /\ call.op = "depouiller"
    /\ valid_n1 = {}
    /\ Len(urne) = NVoters
    /\ Total(resultats) = NVoters

====
